---- MODULE Spec2Model ----
(***************************************************************************)
(* Model of the training monitor of hivemind/resnet/netmind               *)
(* (run_training_monitor.py): the polling loop of __main__ and the        *)
(* CheckpointHandler it drives.  One action per statement group of the    *)
(* loop body; the external collaborators (dht.get, LocalMetrics.parse_obj, *)
(* load_state_from_peers, hmp.save_pretrained, time.time) are inputs       *)
(* chosen nondeterministically.                                            *)
(***************************************************************************)
EXTENDS Integers, Sequences, FiniteSets, Bags, TLC

VARIABLES
    store_checkpoints,              \* monitor_args.store_checkpoints
    save_checkpoint_step_interval,  \* CheckpointHandler.save_checkpoint_step_interval
    upload_interval,                \* CheckpointHandler.upload_interval
    current_step,                   \* __main__ current_step
    monitor_metrics,                \* __main__ monitor_metrics
    previous_step,                  \* CheckpointHandler.previous_step
    previous_timestamp,             \* CheckpointHandler.previous_timestamp
    clock,                          \* the value time.time() returns
    metrics_dict,                   \* what dht.get returned in this iteration
    pc,                             \* position of the loop
    error,                          \* the uncaught exception that ended the process
    events,                         \* calls made in the current iteration, in order
    pull_result,                    \* outcome of load_state_from_peers in this iteration
    upload_result                   \* outcome of hmp.save_pretrained in this iteration

vars == <<store_checkpoints, save_checkpoint_step_interval, upload_interval,
          current_step, monitor_metrics, previous_step, previous_timestamp,
          clock, metrics_dict, pc, error, events, pull_result, upload_result>>

config == <<store_checkpoints, save_checkpoint_step_interval, upload_interval>>

bookkeeping == <<current_step, monitor_metrics, previous_step, previous_timestamp>>

----------------------------------------------------------------------------
(* Bounds of the model *)

MaxStep == 2

MaxInterval == 2

MaxUploadInterval == 1

MaxTime == 2

(* TrainingMonitorArguments.save_checkpoint_step_interval default *)
DefaultInterval == 5

(* Python's None; a value x that may be None is held as Some(x) *)
None == <<>>

Some(x) == <<x>>

ValueOf(o) == o[1]

(* A raw record that LocalMetrics.parse_obj rejects *)
Malformed == [malformed |-> TRUE]

NoError == "NoError"

Peers == {"p1", "p2"}

LossValues == {1, 3}

MiniStepValues == {0, 2}

SampleValues == {1}

PerfValues == {1}

(* Python's {} *)
EmptyDict == [k \in {} |-> 0]

(* utils.LocalMetrics: the fields the loop reads *)
LocalMetrics ==
    [step : 0..MaxStep, loss : LossValues, mini_steps : MiniStepValues,
     samples_accumulated : SampleValues, samples_per_second : PerfValues]

(* The value of the "<prefix>_metrics" key: peer -> raw record, for the    *)
(* peers that currently have one.                                          *)
MetricsDicts ==
    { [p \in S |-> r[p]] : S \in SUBSET Peers, r \in [Peers -> LocalMetrics \cup {Malformed}] }

(* What dht.get returns: None, or a value holder whose .value is the mapping *)
GetResults == {None} \cup {Some(d) : d \in MetricsDicts}

(* Outcomes of a call to an external service: it returns having done its   *)
(* work, it returns without having done it (the failure is only logged by  *)
(* the service), or it raises.                                             *)
Ok == "ok"

FailedSilently == "failed_silently"

Raised == "raised"

NotCalled == "not_called"

CallOutcomes == {Ok, FailedSilently, Raised}

----------------------------------------------------------------------------
(* Pure helpers *)

RECURSIVE SumOf(_, _, _)
SumOf(d, S, field) ==
    IF S = {} THEN 0
    ELSE LET p == CHOOSE q \in S : TRUE
         IN  d[p][field] + SumOf(d, S \ {p}, field)

(* max(item.step for item in metrics) *)
MinStepOf(d) ==
    CHOOSE s \in {d[p].step : p \in DOMAIN d} :
        \A q \in DOMAIN d : d[q].step >= s

MaxStepOf(d) ==
    CHOOSE s \in {d[p].step : p \in DOMAIN d} :
        \A q \in DOMAIN d : d[q].step <= s

RECURSIVE GCD(_, _)
GCD(a, b) == IF b = 0 THEN a ELSE GCD(b, a % b)

(* sum_loss / sum_mini_steps as the rational number it denotes *)
DivideFloor(n, d) == <<n \div d, 1>>

Divide(n, d) == <<n \div GCD(n, d), d \div GCD(n, d)>>

(* utils.LocalMetrics.parse_obj succeeds on every record of the mapping *)
AllParse(d) == \A p \in DOMAIN d : d[p] # Malformed

(* `if metrics_dict is not None` *)
HasMetricsMissingGuard(d) == TRUE

HasMetrics(d) == d # None

(* `if latest_step != current_step` *)
StepChangedAlways(latest_step, cur) == TRUE

StepChanged(latest_step, cur) == latest_step # cur

(* CheckpointHandler.is_time_to_save_state *)
is_time_to_save_state_no_base(cur_step) ==
    IF save_checkpoint_step_interval = None THEN FALSE
    ELSE cur_step >= ValueOf(save_checkpoint_step_interval)

is_time_to_save_state_strict(cur_step) ==
    IF save_checkpoint_step_interval = None THEN FALSE
    ELSE cur_step - previous_step > ValueOf(save_checkpoint_step_interval)

is_time_to_save_state(cur_step) ==
    IF save_checkpoint_step_interval = None THEN FALSE
    ELSE IF cur_step - previous_step >= ValueOf(save_checkpoint_step_interval) THEN TRUE
    ELSE FALSE

(* CheckpointHandler.is_time_to_upload; defined when upload_interval is a number *)
is_time_to_upload ==
    IF clock - previous_timestamp >= ValueOf(upload_interval) THEN TRUE ELSE FALSE

Crash(kind) ==
    /\ pc' = "crashed"
    /\ error' = kind

----------------------------------------------------------------------------
Init ==
    /\ store_checkpoints \in BOOLEAN
    /\ save_checkpoint_step_interval \in
           IF store_checkpoints
           THEN {None} \cup {Some(n) : n \in 1..MaxInterval}
           ELSE {Some(DefaultInterval)}
    /\ upload_interval \in
           IF store_checkpoints
           THEN {None} \cup {Some(n) : n \in 0..MaxUploadInterval}
           ELSE {None}
    /\ current_step = 0
    /\ monitor_metrics = EmptyDict
    /\ previous_step = -1
    /\ clock = 0
    /\ previous_timestamp = clock
    /\ metrics_dict = None
    /\ pc = "get"
    /\ error = NoError
    /\ events = <<>>
    /\ pull_result = NotCalled
    /\ upload_result = NotCalled

(* line 180: metrics_dict = dht.get(experiment_prefix + "_metrics", latest=True) *)
GetMetrics ==
    /\ pc = "get"
    /\ events' = <<"get">>
    /\ UNCHANGED <<pull_result, upload_result>>
    /\ \/ \E d \in GetResults :
             /\ metrics_dict' = d
             /\ pc' = "aggregate"
             /\ error' = error
       \/ /\ metrics_dict' = None
          /\ Crash("StoreUnavailable")
    /\ UNCHANGED <<config, bookkeeping, clock>>

(* lines 182-214: parse the records, find the latest step, fold *)
Aggregate ==
    /\ pc = "aggregate"
    /\ UNCHANGED <<config, previous_step, previous_timestamp, clock, metrics_dict,
                   pull_result, upload_result>>
    /\ IF ~HasMetrics(metrics_dict)
       THEN /\ pc' = "sleep"
            /\ UNCHANGED <<current_step, monitor_metrics, error, events>>
       ELSE IF metrics_dict = None
       THEN /\ Crash("AttributeError")
            /\ UNCHANGED <<current_step, monitor_metrics, events>>
       ELSE IF ~AllParse(ValueOf(metrics_dict))
       THEN /\ Crash("MalformedPeerRecord")
            /\ UNCHANGED <<current_step, monitor_metrics, events>>
       ELSE IF DOMAIN ValueOf(metrics_dict) = {}
       THEN /\ Crash("ValueError")
            /\ UNCHANGED <<current_step, monitor_metrics, events>>
       ELSE LET d == ValueOf(metrics_dict)
                latest_step == MaxStepOf(d)
                metrics == DOMAIN d
                sum_loss == SumOf(d, metrics, "loss")
                alive_peers == Cardinality(metrics)
                sum_perf == SumOf(d, metrics, "samples_per_second")
                num_samples == SumOf(d, metrics, "samples_accumulated")
                sum_mini_steps == SumOf(d, metrics, "mini_steps")
            IN  IF ~StepChanged(latest_step, current_step)
                THEN /\ pc' = "sleep"
                     /\ UNCHANGED <<current_step, monitor_metrics, error, events>>
                ELSE /\ current_step' = latest_step
                     /\ IF sum_mini_steps = 0
                        THEN /\ Crash("ZeroDivisionError")
                             /\ UNCHANGED <<monitor_metrics, events>>
                        ELSE /\ monitor_metrics' =
                                    [loss |-> Divide(sum_loss, sum_mini_steps),
                                     alive_peers |-> alive_peers,
                                     samples |-> num_samples,
                                     performance |-> sum_perf]
                             /\ events' = Append(events, "snapshot")
                             /\ pc' = "check_save"
                             /\ error' = error

(* lines 216-217: if store_checkpoints: if is_time_to_save_state(current_step) *)
CheckSaveSkipsSleep ==
    /\ pc = "check_save"
    /\ IF store_checkpoints
       THEN /\ events' = Append(events, "is_time_to_save_state")
            /\ pc' = IF is_time_to_save_state(current_step) THEN "save_state" ELSE "step"
       ELSE /\ events' = events
            /\ pc' = "step"
    /\ UNCHANGED <<config, bookkeeping, clock, metrics_dict, error, pull_result, upload_result>>

CheckSave ==
    /\ pc = "check_save"
    /\ IF store_checkpoints
       THEN /\ events' = Append(events, "is_time_to_save_state")
            /\ pc' = IF is_time_to_save_state(current_step) THEN "save_state" ELSE "sleep"
       ELSE /\ events' = events
            /\ pc' = "sleep"
    /\ UNCHANGED <<config, bookkeeping, clock, metrics_dict, error, pull_result, upload_result>>

(* lines 118-121: CheckpointHandler.save_state(current_step) *)
SaveState ==
    /\ pc = "save_state"
    /\ events' = Append(events, "save_state")
    /\ \E outcome \in CallOutcomes, dt \in 0..1 :
          /\ clock + dt <= MaxTime
          /\ clock' = clock + dt
          /\ pull_result' = outcome
          /\ IF outcome = Raised
             THEN /\ Crash("StateAverageFailure")
                  /\ previous_step' = previous_step
             ELSE /\ previous_step' = current_step
                  /\ pc' = "check_upload"
                  /\ error' = error
    /\ UNCHANGED <<config, current_step, monitor_metrics, previous_timestamp,
                   metrics_dict, upload_result>>

(* line 219: if checkpoint_handler.is_time_to_upload() *)
CheckUpload ==
    /\ pc = "check_upload"
    /\ events' = Append(events, "is_time_to_upload")
    /\ IF upload_interval = None
       THEN Crash("TypeError")
       ELSE /\ pc' = IF is_time_to_upload THEN "upload_checkpoint" ELSE "sleep"
            /\ error' = error
    /\ UNCHANGED <<config, bookkeeping, clock, metrics_dict, pull_result, upload_result>>

(* lines 138-141: CheckpointHandler.upload_checkpoint(current_loss) *)
UploadCheckpoint ==
    /\ pc = "upload_checkpoint"
    /\ events' = Append(events, "upload_checkpoint")
    /\ \E outcome \in CallOutcomes, dt \in 0..1 :
          /\ clock + dt <= MaxTime
          /\ clock' = clock + dt
          /\ upload_result' = outcome
          /\ IF outcome = Raised
             THEN /\ Crash("UploadFailure")
                  /\ previous_timestamp' = previous_timestamp
             ELSE /\ previous_timestamp' = clock'
                  /\ pc' = "sleep"
                  /\ error' = error
    /\ UNCHANGED <<config, current_step, monitor_metrics, previous_step,
                   metrics_dict, pull_result>>

(* lines 221-222: time.sleep(monitor_args.refresh_period) *)
Sleep ==
    /\ pc = "sleep"
    /\ events' = Append(events, "sleep")
    /\ \E dt \in 0..1 :
          /\ clock + dt <= MaxTime
          /\ clock' = clock + dt
    /\ pc' = "step"
    /\ UNCHANGED <<config, bookkeeping, metrics_dict, error, pull_result, upload_result>>

(* line 223: hmp.step(current_step, monitor_metrics); the iteration ends *)
(* here, and what the model remembers of it is forgotten.               *)
Step ==
    /\ pc = "step"
    /\ pc' = "get"
    /\ events' = <<>>
    /\ metrics_dict' = None
    /\ pull_result' = NotCalled
    /\ upload_result' = NotCalled
    /\ UNCHANGED <<config, bookkeeping, clock, error>>

Next ==
    \/ GetMetrics
    \/ Aggregate
    \/ CheckSave
    \/ SaveState
    \/ CheckUpload
    \/ UploadCheckpoint
    \/ Sleep
    \/ Step

Spec == Init /\ [][Next]_vars

----------------------------------------------------------------------------
(* Vocabulary of the properties *)

InEvents(e) == \E i \in 1..Len(events) : events[i] = e

Failures == {FailedSilently, Raised}

(* dht.get returned a mapping that parses and is not empty *)
Aggregable ==
    /\ metrics_dict # None
    /\ AllParse(ValueOf(metrics_dict))
    /\ DOMAIN ValueOf(metrics_dict) # {}

latest_step == MaxStepOf(ValueOf(metrics_dict))

(* the step that emits the snapshot of this iteration *)
EmitsSnapshot == ~InEvents("snapshot") /\ InEvents("snapshot")'

(* an iteration whose records' max step equals the global step it started with *)
TieTick ==
    /\ pc \in {"aggregate", "sleep", "step"}
    /\ Aggregable
    /\ latest_step = current_step
    /\ ~InEvents("snapshot")

(* an iteration in which dht.get returned None *)
AbsentTick ==
    /\ pc \in {"aggregate", "sleep", "step"}
    /\ metrics_dict = None

AfterPc(p) ==
    IF p = "aggregate" THEN "sleep" ELSE IF p = "sleep" THEN "step" ELSE "get"

----------------------------------------------------------------------------
(* C1: whenever save_state(cur_step) is about to be invoked, the interval  *)
(* is set and cur_step - previous_step >= save_checkpoint_step_interval    *)
(* for the previous_step just before the call.                             *)
C1_SaveOnlyWhenDue ==
    pc = "save_state" =>
        /\ save_checkpoint_step_interval # None
        /\ current_step - previous_step >= ValueOf(save_checkpoint_step_interval)

C1_Witness ==
    /\ pc = "save_state"
    /\ previous_step >= 0
    /\ current_step - previous_step = ValueOf(save_checkpoint_step_interval)

(* C2: a failed state pull leaves previous_step unchanged and the          *)
(* iteration goes on to its sleep, so that the next eligible iteration     *)
(* retries the save.                                                       *)
C2_FailedPullKeepsStepAndRetries ==
    [][(pc = "save_state" /\ pull_result' \in Failures) =>
           (previous_step' = previous_step /\ pc' = "sleep")]_vars

(* C3: a failed upload leaves previous_timestamp unchanged and the         *)
(* iteration goes on to its sleep, so that the next cadence check retries  *)
(* the upload.                                                             *)
C3_FailedUploadKeepsTimeAndRetries ==
    [][(pc = "upload_checkpoint" /\ upload_result' \in Failures) =>
           (previous_timestamp' = previous_timestamp /\ pc' = "sleep")]_vars

(* C4: no error ends the process: the loop never reaches a terminated     *)
(* state.                                                                  *)
C4_NeverCrashes == pc # "crashed" /\ error = NoError

(* C5 as stated: a snapshot is emitted only when the max peer step is     *)
(* strictly greater than the global step, and current_step never decreases *)
C5_StepNeverDecreases ==
    [][/\ (EmitsSnapshot => latest_step > current_step)
       /\ current_step' >= current_step]_vars

(* C5 amended: a snapshot is emitted, and the global step changed, only   *)
(* when the max peer step differs from the global step; the global step    *)
(* becomes that max, so it decreases only when the max is below it.        *)
C5_StepFollowsLatest ==
    [][/\ (EmitsSnapshot => (latest_step # current_step /\ current_step' = latest_step))
       /\ (current_step' # current_step =>
              (pc = "aggregate" /\ Aggregable /\ current_step' = latest_step))
       /\ (current_step' < current_step => latest_step < current_step)]_vars

C5_Witness ==
    /\ InEvents("snapshot")
    /\ current_step = 0
    /\ pc = "step"

(* C6: an iteration whose max step equals the global step emits no         *)
(* snapshot and changes none of current_step, monitor_metrics,             *)
(* previous_step, previous_timestamp; it goes to sleep and to the next     *)
(* iteration.                                                              *)
C6_TieIsNoOp ==
    [][TieTick =>
          /\ UNCHANGED bookkeeping
          /\ ~InEvents("snapshot")'
          /\ ~InEvents("save_state")'
          /\ pc' = AfterPc(pc)]_vars

C6_Witness ==
    /\ TieTick
    /\ pc = "step"
    /\ monitor_metrics # EmptyDict
    /\ previous_step >= 0

(* C7: previous_step never decreases *)
C7_SavedStepMonotone == [][previous_step' >= previous_step]_vars

C7_Witness ==
    /\ pc = "sleep"
    /\ InEvents("is_time_to_save_state")
    /\ previous_step > current_step

(* C8: the checkpoint calls happen only in an iteration that emitted a     *)
(* snapshot, and the upload check and the upload only after a state pull   *)
(* that succeeded in the same iteration.                                   *)
C8_UploadOnlyAfterSuccessfulSave ==
    /\ (InEvents("is_time_to_save_state") \/ InEvents("save_state")
          \/ InEvents("is_time_to_upload") \/ InEvents("upload_checkpoint"))
         => InEvents("snapshot")
    /\ (pc = "check_upload" \/ InEvents("is_time_to_upload") \/ InEvents("upload_checkpoint"))
         => (InEvents("save_state") /\ pull_result = Ok)

(* C9: with checkpointing enabled, a new snapshot whose step is at least   *)
(* save_checkpoint_step_interval past previous_step leads to save_state,   *)
(* one that is not leads to the sleep, and a save whose pull succeeds      *)
(* sets previous_step to current_step.                                     *)
C9_SaveWhenDue ==
    [][/\ (pc = "check_save" /\ store_checkpoints /\ save_checkpoint_step_interval # None) =>
             IF current_step - previous_step >= ValueOf(save_checkpoint_step_interval)
             THEN pc' = "save_state"
             ELSE pc' = "sleep" /\ previous_step' = previous_step
       /\ (pc = "save_state" /\ pull_result' = Ok) =>
             (previous_step' = current_step /\ InEvents("save_state")')]_vars

C9_Witness ==
    /\ pc = "check_upload"
    /\ pull_result = Ok
    /\ save_checkpoint_step_interval = Some(MaxInterval)
    /\ current_step = MaxInterval
    /\ previous_step = current_step

(* C10: when dht.get returns None the iteration emits no snapshot, raises  *)
(* nothing, changes neither current_step nor the checkpoint bookkeeping,   *)
(* and goes through its sleep to the next iteration.                       *)
C10_AbsentIsQuiet ==
    [][AbsentTick =>
          /\ UNCHANGED bookkeeping
          /\ error' = NoError
          /\ ~InEvents("snapshot")'
          /\ pc' = AfterPc(pc)]_vars

C10_Witness ==
    /\ AbsentTick
    /\ events = <<"get", "sleep">>
    /\ previous_step >= 0

(* an iteration in which dht.get returned a mapping without any record *)
EmptyTick ==
    /\ pc \in {"aggregate", "sleep", "step"}
    /\ metrics_dict # None
    /\ DOMAIN ValueOf(metrics_dict) = {}

(* the peers of the fetched mapping whose record parses *)
WellFormed == {p \in DOMAIN ValueOf(metrics_dict) : ValueOf(metrics_dict)[p] # Malformed}

(* the sum of one field over a set of peers of the fetched mapping *)
Total(S, field) ==
    BagCardinality([p \in {q \in S : ValueOf(metrics_dict)[q][field] > 0} |->
                        ValueOf(metrics_dict)[p][field]])

(* C11: when dht.get returns a mapping without records, the iteration      *)
(* emits no snapshot, leaves current_step unchanged and does not fail: it  *)
(* goes through its sleep to the next iteration.                           *)
C11_EmptyIsQuiet ==
    [][EmptyTick =>
          /\ current_step' = current_step
          /\ ~InEvents("snapshot")'
          /\ error' = NoError
          /\ pc' = AfterPc(pc)]_vars

(* C12: the division sum_loss / sum_mini_steps is never executed with     *)
(* sum_mini_steps = 0.                                                     *)
C12_NoZeroDenominator == error # "ZeroDivisionError"

(* C13: a record that does not parse does not abort the iteration: the     *)
(* process goes on, and when the remaining records carry a step other      *)
(* than current_step and mini-steps, they are folded into the snapshot.    *)
C13_MalformedIsSkipped ==
    [][(pc = "aggregate" /\ metrics_dict # None /\ ~AllParse(ValueOf(metrics_dict))) =>
          /\ pc' # "crashed"
          /\ error' = NoError
          /\ (/\ WellFormed # {}
              /\ \E p \in WellFormed : ValueOf(metrics_dict)[p].step # current_step
              /\ Total(WellFormed, "mini_steps") > 0)
             => (/\ InEvents("snapshot")'
                 /\ monitor_metrics'.alive_peers = Cardinality(WellFormed))]_vars

(* C14: when a snapshot is emitted, current_step becomes the greatest     *)
(* step among the fetched records and alive peers is the number of         *)
(* records of the mapping.                                                 *)
C14_SnapshotStepIsMax ==
    [][EmitsSnapshot =>
          /\ DOMAIN ValueOf(metrics_dict) # {}
          /\ \E p \in DOMAIN ValueOf(metrics_dict) : ValueOf(metrics_dict)[p].step = current_step'
          /\ \A p \in DOMAIN ValueOf(metrics_dict) : ValueOf(metrics_dict)[p].step <= current_step'
          /\ monitor_metrics'.alive_peers = Cardinality(DOMAIN ValueOf(metrics_dict))]_vars

C14_Witness ==
    /\ pc = "check_save"
    /\ InEvents("snapshot")
    /\ DOMAIN ValueOf(metrics_dict) = Peers
    /\ ValueOf(metrics_dict)["p1"].step < ValueOf(metrics_dict)["p2"].step
    /\ monitor_metrics.alive_peers = 2

(* C15: in the iteration that emitted a snapshot, the loss of the snapshot *)
(* times the sum of the mini_steps equals the sum of the losses; records   *)
(* with losses 1 and 3 and mini_steps 2 and 2 give the loss 1.             *)
C15_LossIsSumRatio ==
    InEvents("snapshot") =>
        /\ Total(DOMAIN ValueOf(metrics_dict), "mini_steps") > 0
        /\ monitor_metrics.loss[2] > 0
        /\ monitor_metrics.loss[1] * Total(DOMAIN ValueOf(metrics_dict), "mini_steps")
             = Total(DOMAIN ValueOf(metrics_dict), "loss") * monitor_metrics.loss[2]
        /\ (/\ DOMAIN ValueOf(metrics_dict) = Peers
            /\ ValueOf(metrics_dict)["p1"].loss = 1
            /\ ValueOf(metrics_dict)["p2"].loss = 3
            /\ ValueOf(metrics_dict)["p1"].mini_steps = 2
            /\ ValueOf(metrics_dict)["p2"].mini_steps = 2)
           => (monitor_metrics.loss = <<1, 1>> /\ monitor_metrics.alive_peers = 2)

C15_Witness ==
    /\ InEvents("snapshot")
    /\ DOMAIN ValueOf(metrics_dict) = Peers
    /\ ValueOf(metrics_dict)["p1"].loss = 1
    /\ ValueOf(metrics_dict)["p2"].loss = 3
    /\ ValueOf(metrics_dict)["p1"].mini_steps = 2
    /\ ValueOf(metrics_dict)["p2"].mini_steps = 2
    /\ ValueOf(metrics_dict)["p1"].step = MaxStep
    /\ ValueOf(metrics_dict)["p2"].step = MaxStep
    /\ current_step = MaxStep
    /\ monitor_metrics.loss = <<1, 1>>

(* an iteration that emits no snapshot: dht.get returned None, or the max  *)
(* step of the records equals current_step                                 *)
NoSnapshotTick == AbsentTick \/ TieTick

CheckpointEvents ==
    {"is_time_to_save_state", "save_state", "is_time_to_upload", "upload_checkpoint"}

(* the call hmp.step(current_step, monitor_metrics) *)
Reports == pc = "step" /\ pc' = "get"

(* C16 as stated: an iteration that emits no snapshot neither calls        *)
(* hmp.step nor evaluates the checkpoint handler.                          *)
C16_NoReportWithoutSnapshot ==
    [][NoSnapshotTick =>
          /\ ~Reports
          /\ \A e \in CheckpointEvents : ~InEvents(e)']_vars

(* C16 amended: an iteration that emits no snapshot does not evaluate the  *)
(* checkpoint handler, and after its sleep it still calls hmp.step, with   *)
(* the current_step and monitor_metrics it started with.                   *)
C16_ReportButNoCheckpoint ==
    [][NoSnapshotTick =>
          /\ \A e \in CheckpointEvents : ~InEvents(e)'
          /\ pc' \notin {"check_save", "save_state", "check_upload", "upload_checkpoint"}
          /\ (pc = "step" => (Reports /\ UNCHANGED <<current_step, monitor_metrics>>))
          /\ (pc # "step" => ~Reports)]_vars

C16_Witness ==
    /\ TieTick
    /\ pc = "step"
    /\ store_checkpoints
    /\ is_time_to_save_state(current_step)

(* C17: with checkpointing enabled, an iteration whose state pull          *)
(* succeeded and whose upload did not fail is completed, so that the loop  *)
(* lives on to the next save; and once upload_interval has elapsed since   *)
(* previous_timestamp, the upload follows the save.                        *)
C17_SavesAndUploadsGoOn ==
    [][(pc = "check_upload" /\ pull_result = Ok) =>
          /\ pc' \in {"upload_checkpoint", "sleep"}
          /\ error' = NoError
          /\ (upload_interval # None /\ clock - previous_timestamp >= ValueOf(upload_interval))
               => pc' = "upload_checkpoint"]_vars

(* C18: with upload_interval None, an iteration that saved goes to its     *)
(* sleep without an error and without calling upload_checkpoint.           *)
C18_UnsetIntervalDisablesUpload ==
    (upload_interval = None /\ InEvents("is_time_to_upload")) =>
        (pc \in {"sleep", "step"} /\ error = NoError /\ ~InEvents("upload_checkpoint"))

(* how many times a call was made in the current iteration *)
Count(e) == Cardinality({i \in 1..Len(events) : events[i] = e})

(* C19: every store fetch after the first follows an iteration that began  *)
(* with one fetch and ended with exactly one sleep, and no iteration       *)
(* calls save_state or upload_checkpoint more than once.                   *)
C19_OneSleepPerTick ==
    [][/\ (pc # "get" /\ pc' = "get") =>
             /\ pc = "step"
             /\ Len(events) >= 2
             /\ events[1] = "get"
             /\ events[Len(events)] = "sleep"
             /\ Count("sleep") = 1
             /\ Count("get") = 1
       /\ (pc = "get" /\ pc' # "get") => events' = <<"get">>
       /\ Count("save_state")' <= 1
       /\ Count("upload_checkpoint")' <= 1
       /\ Count("sleep")' <= 1]_vars

C19_Witness ==
    /\ pc = "step"
    /\ upload_result = FailedSilently
    /\ events = <<"get", "snapshot", "is_time_to_save_state", "save_state",
                  "is_time_to_upload", "upload_checkpoint", "sleep">>

====
